---- MODULE Spec2Model ----
\* Model of the pull-request review pipeline of src/main.go (the variant that
\* parses the diff: lines 157-421): main, parseDiff, createPrompt,
\* analyzeCodeUsingGemini and the collaborators they call.
\*
\* Strings are TLA+ strings; Len, SubSeq and \o act on them character by
\* character, so prefix tests, prefix stripping, splitting and formatting are
\* computed as the Go code computes them.
\*
\* A Go pointer that may be nil (currentFile, currentHunk, candidate.Content)
\* is a sequence of length 0 (nil) or 1 (the value pointed to).
\*
\* GetPRDetails of src/unnamed/part_000 (lines 38-101) is modelled with its
\* helpers under its own specification, GetPRDetailsSpec. A decoded JSON value
\* is a record with its kind ("absent" for a key the map does not hold) and,
\* by kind, its string s, its number in tenths, or its fields.
\*
\* History fields, which the code does not hold, are written in lower case:
\*   hunk.at      index in `lines` of the '@@' line that opened the hunk
\*   comment.src  <<file index, hunk index>> of the loop iteration that
\*                appended the comment
EXTENDS Integers, Sequences, FiniteSets, TLC

VARIABLES
    pc,           \* position in main
    err,          \* main's err: "" is nil
    out,          \* the line main printed last
    history,      \* the steps of main that have succeeded, in order
    prDetails,    \* main's prDetails
    diff,         \* main's diff
    lines,        \* parseDiff: lines
    idx,          \* parseDiff: position of the range loop in lines
    files,        \* parseDiff: files
    currentFile,  \* parseDiff: currentFile
    currentHunk,  \* parseDiff: currentHunk
    parsedFiles,  \* main's parsedFiles
    fi,           \* analyzeCodeUsingGemini: position of the outer range loop
    hi,           \* analyzeCodeUsingGemini: position of the inner range loop
    collected,    \* analyzeCodeUsingGemini: its local comments
    calls,        \* the calls of model.GenerateContent made so far
    comments,     \* main's comments
    posted,       \* the comment sequences handed to postReviewComments
    cancelRequested, \* the caller has asked for the assembly to be cancelled
    gpc,          \* position in GetPRDetails
    eventPath,    \* GetPRDetails: eventPath, the value of GITHUB_EVENT_PATH
    eventFile,    \* what the file system holds at eventPath
    payload,      \* the JSON object written in the event file
    eventData,    \* GetPRDetails: eventData
    pullNumber,   \* GetPRDetails: pullNumber
    repoFullName, \* GetPRDetails: repoFullName
    retDetails,   \* GetPRDetails: the *PRDetails it returned
    retErr        \* GetPRDetails: the error it returned, "" is nil

vars == <<pc, err, out, history, prDetails, diff, lines, idx, files, currentFile,
          currentHunk, parsedFiles, fi, hi, collected, calls, comments, posted,
          cancelRequested, gpc, eventPath, eventFile, payload, eventData,
          pullNumber, repoFullName, retDetails, retErr>>

mainVars == <<err, out, history, prDetails, diff, parsedFiles, comments, posted>>
parseVars == <<lines, idx, files, currentFile, currentHunk>>
analyzeVars == <<fi, hi, collected, calls>>
eventVars == <<gpc, eventPath, eventFile, payload, eventData, pullNumber,
               repoFullName, retDetails, retErr>>

----------------------------------------------------------------------------
\* Bounds and inputs

\* Longest diff, in lines, that getDiff draws from the line alphabet.
MaxLines == 5

HeaderLine == "diff --git a/x.go b/x.go"
PreLine == "--- a/x.go"
PostLine == "+++ b/y.go"
HunkLine == "@@ -1,2 +1,2 @@"
AddedLine == "+new"

LineAlphabet == {HeaderLine, PreLine, PostLine, HunkLine, AddedLine}

LineSeqs == UNION {[1..n -> LineAlphabet] : n \in 0..MaxLines}

\* A diff text: every line terminated by a newline.
RECURSIVE Text(_)
Text(ls) == IF ls = <<>> THEN "" ELSE Head(ls) \o "\n" \o Text(Tail(ls))

\* The example diff of the specification's section 8.
ExampleDiff ==
    "diff --git a/x.go b/x.go\n--- a/x.go\n+++ b/x.go\n@@ -1,2 +1,2 @@\n-old\n+new\n"

\* The rename example of the specification's section 8: a file block whose
\* only lines after the diff header are the two path lines.
RenameDiff == "diff --git a/r.txt b/r2.txt\n--- a/r.txt\n+++ b/r2.txt\n"

\* A file block with two hunks, each with content.
TwoHunkDiff ==
    "diff --git a/x.go b/x.go\n--- a/x.go\n+++ b/x.go\n@@ -1,2 +1,2 @@\n-old\n+new\n"
    \o "@@ -9,1 +9,1 @@\n+more\n"

DiffTexts == {Text(ls) : ls \in LineSeqs} \cup {ExampleDiff, RenameDiff, TwoHunkDiff}

\* What json.Unmarshal can leave in PRDetails (only the fields the pipeline
\* reads after the diff is fetched).
PRDetailsSet == {[Title |-> "", Description |-> ""],
                 [Title |-> "Fix", Description |-> "why"]}

\* genai parts and candidates the collaborator can answer with.
TextPart(t) == [Kind |-> "Text", Text |-> t]
CallPart(n) == [Kind |-> "FunctionCall", Text |-> n]
CodePart(c) == [Kind |-> "ExecutableCode", Text |-> c]
ResultPart(r) == [Kind |-> "CodeExecutionResult", Text |-> r]
BlobPart == [Kind |-> "Blob", Text |-> "x"]
Cand(parts) == [Content |-> <<parts>>]
NilCand == [Content |-> <<>>]

Responses == { <<>>,
               <<Cand(<<TextPart("a")>>)>>,
               <<Cand(<<TextPart("b"), CallPart("f"), CodePart("c"),
                        ResultPart("r"), BlobPart>>),
                 NilCand, Cand(<<>>)>> }

----------------------------------------------------------------------------
\* strings

HasPrefix(s, prefix) ==
    /\ Len(s) >= Len(prefix)
    /\ SubSeq(s, 1, Len(prefix)) = prefix

TrimPrefix(s, prefix) ==
    IF HasPrefix(s, prefix) THEN SubSeq(s, Len(prefix) + 1, Len(s)) ELSE s

\* strings.Index: the first position of sep in s, 0 when there is none.
Index(s, sep) ==
    LET hits == {i \in 1..(Len(s) - Len(sep) + 1) :
                    SubSeq(s, i, i + Len(sep) - 1) = sep}
    IN  IF hits = {} THEN 0
        ELSE CHOOSE i \in hits : \A j \in hits : i <= j

\* strings.Split for a non-empty separator.
RECURSIVE Split(_, _)
Split(s, sep) ==
    LET i == Index(s, sep)
    IN  IF i = 0 THEN <<s>>
        ELSE <<SubSeq(s, 1, i - 1)>> \o Split(SubSeq(s, i + Len(sep), Len(s)), sep)

----------------------------------------------------------------------------
\* parseDiff

IsDiffHeader(line) == HasPrefix(line, "diff --git")
IsPreImage(line) == ~IsDiffHeader(line) /\ HasPrefix(line, "--- a/")
IsPostImage(line) ==
    ~IsDiffHeader(line) /\ ~HasPrefix(line, "--- a/") /\ HasPrefix(line, "+++ b/")
IsHunkStart(line) ==
    /\ ~IsDiffHeader(line)
    /\ ~HasPrefix(line, "--- a/")
    /\ ~HasPrefix(line, "+++ b/")
    /\ HasPrefix(line, "@@")
IsOther(line) ==
    /\ ~IsDiffHeader(line)
    /\ ~HasPrefix(line, "--- a/")
    /\ ~HasPrefix(line, "+++ b/")
    /\ ~HasPrefix(line, "@@")

\* &ParsedFile{}
NewFile == [Path |-> "", Hunks |-> <<>>]

\* &Hunk{Header: line}
NewHunk(line, at) == [Header |-> line, Content |-> "", Lines |-> <<>>, at |-> at]

\* Mutant of AppendFile: a file without a path is not appended.
AppendFile_SkipUnnamed(fs, cf) ==
    IF cf # <<>> /\ cf[1].Path # "" THEN Append(fs, cf[1]) ELSE fs

\* files = append(files, *currentFile), when currentFile is not nil
AppendFile(fs, cf) == IF cf # <<>> THEN Append(fs, cf[1]) ELSE fs

\* Mutant of SetPath: a path already set is kept.
SetPath_KeepFirst(cf, line, prefix) ==
    IF cf # <<>> /\ cf[1].Path = ""
    THEN <<[cf[1] EXCEPT !.Path = TrimPrefix(line, prefix)]>>
    ELSE cf

\* currentFile.Path = strings.TrimPrefix(line, prefix), when currentFile is not nil
SetPath(cf, line, prefix) ==
    IF cf # <<>> THEN <<[cf[1] EXCEPT !.Path = TrimPrefix(line, prefix)]>> ELSE cf

\* currentFile.Hunks = append(currentFile.Hunks, *currentHunk), when
\* currentHunk is not nil
AppendHunk(cf, ch) ==
    IF ch # <<>> THEN <<[cf[1] EXCEPT !.Hunks = Append(@, ch[1])]>> ELSE cf

\* currentHunk.Lines = append(...); currentHunk.Content += line + "\n", when
\* currentHunk is not nil
AddLine(ch, line) ==
    IF ch # <<>>
    THEN <<[ch[1] EXCEPT !.Lines = Append(@, line), !.Content = @ \o line \o "\n"]>>
    ELSE ch

\* The body of the range loop for one line: the switch, on the loop's state
\* st = [files, currentFile, currentHunk]; at is the index of the line.
ScanLine(st, line, at) ==
    IF IsDiffHeader(line)
    THEN [st EXCEPT !.files = AppendFile(st.files, st.currentFile),
                    !.currentFile = <<NewFile>>]
    ELSE IF IsPreImage(line)
    THEN [st EXCEPT !.currentFile = SetPath(st.currentFile, line, "--- a/")]
    ELSE IF IsPostImage(line)
    THEN [st EXCEPT !.currentFile = SetPath(st.currentFile, line, "+++ b/")]
    ELSE IF IsHunkStart(line)
    THEN IF st.currentFile # <<>>
         THEN [st EXCEPT !.currentFile = AppendHunk(st.currentFile, st.currentHunk),
                         !.currentHunk = <<NewHunk(line, at)>>]
         ELSE st
    ELSE [st EXCEPT !.currentHunk = AddLine(st.currentHunk, line)]

\* for _, line := range lines, from index at on
RECURSIVE ScanFrom(_, _, _)
ScanFrom(st, ls, at) ==
    IF at > Len(ls) THEN st ELSE ScanFrom(ScanLine(st, ls[at], at), ls, at + 1)

\* parseDiff as a function of its argument: the files it returns.
parseDiff(text) ==
    LET st == ScanFrom([files |-> <<>>, currentFile |-> <<>>, currentHunk |-> <<>>],
                       Split(text, "\n"), 1)
    IN  AppendFile(st.files, st.currentFile)

Scanning == pc = "scan" /\ idx <= Len(lines)

\* main calls parseDiff: the declarations and strings.Split
ParseDiffBegin ==
    /\ pc = "parseDiff"
    /\ lines' = Split(diff, "\n")
    /\ idx' = 1
    /\ files' = <<>>
    /\ currentFile' = <<>>
    /\ currentHunk' = <<>>
    /\ pc' = "scan"
    /\ UNCHANGED <<mainVars, analyzeVars>>
    /\ UNCHANGED <<cancelRequested, eventVars>>

\* case strings.HasPrefix(line, "diff --git")
ParseDiffHeader ==
    /\ Scanning
    /\ IsDiffHeader(lines[idx])
    /\ files' = AppendFile(files, currentFile)
    /\ currentFile' = <<NewFile>>
    /\ idx' = idx + 1
    /\ UNCHANGED <<pc, lines, currentHunk, mainVars, analyzeVars>>
    /\ UNCHANGED <<cancelRequested, eventVars>>

\* case strings.HasPrefix(line, "--- a/")
ParsePreImage ==
    /\ Scanning
    /\ IsPreImage(lines[idx])
    /\ currentFile' = SetPath(currentFile, lines[idx], "--- a/")
    /\ idx' = idx + 1
    /\ UNCHANGED <<pc, lines, files, currentHunk, mainVars, analyzeVars>>
    /\ UNCHANGED <<cancelRequested, eventVars>>

\* Mutant of ParsePostImage: the case falls through into the '@@' case.
ParsePostImage_Fallthrough ==
    /\ Scanning
    /\ IsPostImage(lines[idx])
    /\ IF currentFile # <<>>
       THEN /\ currentFile' = AppendHunk(SetPath(currentFile, lines[idx], "+++ b/"),
                                         currentHunk)
            /\ currentHunk' = <<NewHunk(lines[idx], idx)>>
       ELSE UNCHANGED <<currentFile, currentHunk>>
    /\ idx' = idx + 1
    /\ UNCHANGED <<pc, lines, files, mainVars, analyzeVars>>
    /\ UNCHANGED <<cancelRequested, eventVars>>

\* case strings.HasPrefix(line, "+++ b/")
ParsePostImage ==
    /\ Scanning
    /\ IsPostImage(lines[idx])
    /\ currentFile' = SetPath(currentFile, lines[idx], "+++ b/")
    /\ idx' = idx + 1
    /\ UNCHANGED <<pc, lines, files, currentHunk, mainVars, analyzeVars>>
    /\ UNCHANGED <<cancelRequested, eventVars>>

\* Mutant of ParseHunkStart: a marker outside any file opens a file for its hunk.
ParseHunkStart_OpensFile ==
    /\ Scanning
    /\ IsHunkStart(lines[idx])
    /\ currentFile' = IF currentFile # <<>> THEN AppendHunk(currentFile, currentHunk)
                       ELSE <<NewFile>>
    /\ currentHunk' = <<NewHunk(lines[idx], idx)>>
    /\ idx' = idx + 1
    /\ UNCHANGED <<pc, lines, files, mainVars, analyzeVars>>
    /\ UNCHANGED <<cancelRequested, eventVars>>

\* case strings.HasPrefix(line, "@@")
ParseHunkStart ==
    /\ Scanning
    /\ IsHunkStart(lines[idx])
    /\ IF currentFile # <<>>
       THEN /\ currentFile' = AppendHunk(currentFile, currentHunk)
            /\ currentHunk' = <<NewHunk(lines[idx], idx)>>
       ELSE UNCHANGED <<currentFile, currentHunk>>
    /\ idx' = idx + 1
    /\ UNCHANGED <<pc, lines, files, mainVars, analyzeVars>>
    /\ UNCHANGED <<cancelRequested, eventVars>>

\* default
ParseOther ==
    /\ Scanning
    /\ IsOther(lines[idx])
    /\ currentHunk' = AddLine(currentHunk, lines[idx])
    /\ idx' = idx + 1
    /\ UNCHANGED <<pc, lines, files, currentFile, mainVars, analyzeVars>>
    /\ UNCHANGED <<cancelRequested, eventVars>>

\* Mutant of parseDiffError: a diff without any file is reported as an error.
parseDiffError_NoFiles(fs) == IF fs = <<>> THEN "no files in diff" ELSE ""

\* The error parseDiff returns beside files: return files, nil ("" is nil).
parseDiffError(fs) == ""

\* The loop has ended: the last append, return files, nil; main takes the
\* result and goes on unless the returned error is not nil.
ParseDiffReturn ==
    /\ pc = "scan"
    /\ idx > Len(lines)
    /\ files' = AppendFile(files, currentFile)
    /\ parsedFiles' = files'
    /\ IF parseDiffError(files') = ""
       THEN /\ history' = Append(history, "parseDiff")
            /\ pc' = "analyze"
            /\ UNCHANGED <<err, out>>
       ELSE /\ err' = parseDiffError(files')
            /\ out' = "Error parsing diff"
            /\ pc' = "done"
            /\ UNCHANGED history
    /\ UNCHANGED <<prDetails, diff, comments, posted>>
    /\ UNCHANGED <<lines, idx, currentFile, currentHunk, analyzeVars>>
    /\ UNCHANGED <<cancelRequested, eventVars>>

\* One step of parseDiff after the split.
ParseStep ==
    \/ ParseDiffHeader
    \/ ParsePreImage
    \/ ParsePostImage
    \/ ParseHunkStart
    \/ ParseOther
    \/ ParseDiffReturn

----------------------------------------------------------------------------
\* createPrompt

\* Mutant of createPrompt: the hunk's header is rendered above its content.
createPrompt_WithHeader(file, hunk, title, description) ==
    "\nYour task is to review pull requests. Instructions:\n"
    \o "- Provide comments and suggestions ONLY if there is something to improve.\n"
    \o "- Focus on bugs, security issues, and performance problems.\n"
    \o "- Avoid generic comments and highlight critical issues.\n"
    \o "\nFile: " \o file.Path
    \o "\nPull Request Title: " \o title
    \o "\nPull Request Description: " \o description
    \o "\n\nDiff Context:\n" \o hunk.Header \o "\n" \o hunk.Content \o "\n"

\* fmt.Sprintf of the template with file.Path, title, description, hunk.Content
createPrompt(file, hunk, title, description) ==
    "\nYour task is to review pull requests. Instructions:\n"
    \o "- Provide comments and suggestions ONLY if there is something to improve.\n"
    \o "- Focus on bugs, security issues, and performance problems.\n"
    \o "- Avoid generic comments and highlight critical issues.\n"
    \o "\nFile: " \o file.Path
    \o "\nPull Request Title: " \o title
    \o "\nPull Request Description: " \o description
    \o "\n\nDiff Context:\n" \o hunk.Content \o "\n"

----------------------------------------------------------------------------
\* analyzeCodeUsingGemini

\* The type switch over a part: what it adds to fullText.
PartText(part) ==
    CASE part.Kind = "Text" -> part.Text
      [] part.Kind = "FunctionCall" -> "[Function call: " \o part.Text \o "]"
      [] part.Kind = "ExecutableCode" -> part.Text
      [] part.Kind = "CodeExecutionResult" -> "[Execution result: " \o part.Text \o "]"
      [] OTHER -> ""

\* for _, part := range candidate.Content.Parts { fullText += ... }
RECURSIVE FullText(_)
FullText(parts) ==
    IF parts = <<>> THEN "" ELSE PartText(Head(parts)) \o FullText(Tail(parts))

\* Mutant of AddComment: the comment is put in front.
AddComment_Prepend(cs, c) == <<c>> \o cs

\* comments = append(comments, Comment{...})
AddComment(cs, c) == Append(cs, c)

\* Mutant of Collect: the Path field of the Comment is left unset.
RECURSIVE Collect_Unstamped(_, _, _, _)
Collect_Unstamped(cs, cands, path, src) ==
    IF cands = <<>> THEN cs
    ELSE LET cand == Head(cands)
             next == IF cand.Content # <<>>
                     THEN AddComment(cs, [Path |-> "", Position |-> 0,
                                          Body |-> FullText(cand.Content[1]),
                                          src |-> src])
                     ELSE cs
         IN  Collect_Unstamped(next, Tail(cands), path, src)

\* for _, candidate := range response.Candidates: one Comment, stamped with
\* the file's path, for each candidate whose Content is not nil
RECURSIVE Collect(_, _, _, _)
Collect(cs, cands, path, src) ==
    IF cands = <<>> THEN cs
    ELSE LET cand == Head(cands)
             next == IF cand.Content # <<>>
                     THEN AddComment(cs, [Path |-> path, Position |-> 0,
                                          Body |-> FullText(cand.Content[1]),
                                          src |-> src])
                     ELSE cs
         IN  Collect(next, Tail(cands), path, src)

\* Mutant of HunksLeft: the inner loop stops one hunk early.
HunksLeft_OffByOne(file, h) == h < Len(file.Hunks)

\* the range loops: a file is left, a hunk of the current file is left
FilesLeft(f) == f <= Len(parsedFiles)
HunksLeft(file, h) == h <= Len(file.Hunks)

\* main calls analyzeCodeUsingGemini: genai.NewClient succeeds
AnalyzeBegin ==
    /\ pc = "analyze"
    /\ fi' = 1
    /\ hi' = 1
    /\ collected' = <<>>
    /\ pc' = "loop"
    /\ UNCHANGED <<calls, mainVars, parseVars>>
    /\ UNCHANGED <<cancelRequested, eventVars>>

\* genai.NewClient fails: return nil, error; main prints and returns
AnalyzeClientError ==
    /\ pc = "analyze"
    /\ comments' = <<>>
    /\ err' = "failed to create Gemini client"
    /\ out' = "Error analyzing code"
    /\ pc' = "done"
    /\ UNCHANGED <<history, prDetails, diff, parsedFiles, posted>>
    /\ UNCHANGED <<parseVars, analyzeVars>>
    /\ UNCHANGED <<cancelRequested, eventVars>>

\* One iteration of the inner loop in which model.GenerateContent answers.
AnalyzeHunk ==
    /\ pc = "loop"
    /\ FilesLeft(fi)
    /\ HunksLeft(parsedFiles[fi], hi)
    /\ \E resp \in Responses :
         LET file == parsedFiles[fi]
             hunk == file.Hunks[hi]
             prompt == createPrompt(file, hunk, prDetails.Title, prDetails.Description)
         IN  /\ calls' = Append(calls, [fi |-> fi, hi |-> hi, prompt |-> prompt,
                                        ok |-> TRUE, resp |-> resp])
             /\ collected' = Collect(collected, resp, file.Path, <<fi, hi>>)
    /\ hi' = hi + 1
    /\ UNCHANGED <<pc, fi, mainVars, parseVars>>
    /\ UNCHANGED <<cancelRequested, eventVars>>

\* Mutant of AnalyzeHunkError: the failure ends the loops but the comments
\* accumulated so far are returned without an error.
AnalyzeHunkError_KeepPartial ==
    /\ pc = "loop"
    /\ fi <= Len(parsedFiles)
    /\ hi <= Len(parsedFiles[fi].Hunks)
    /\ calls' = Append(calls, [fi |-> fi, hi |-> hi, prompt |-> "",
                               ok |-> FALSE, resp |-> <<>>])
    /\ comments' = collected
    /\ pc' = "post"
    /\ UNCHANGED <<err, out, history, prDetails, diff, parsedFiles, posted>>
    /\ UNCHANGED <<fi, hi, collected, parseVars>>
    /\ UNCHANGED <<cancelRequested, eventVars>>

\* One iteration in which model.GenerateContent fails: return nil, error;
\* main prints and returns.
AnalyzeHunkError ==
    /\ pc = "loop"
    /\ FilesLeft(fi)
    /\ HunksLeft(parsedFiles[fi], hi)
    /\ LET file == parsedFiles[fi]
           hunk == file.Hunks[hi]
           prompt == createPrompt(file, hunk, prDetails.Title, prDetails.Description)
       IN  calls' = Append(calls, [fi |-> fi, hi |-> hi, prompt |-> prompt,
                                   ok |-> FALSE, resp |-> <<>>])
    /\ comments' = <<>>
    /\ err' = "error analyzing code with Gemini"
    /\ out' = "Error analyzing code"
    /\ pc' = "done"
    /\ UNCHANGED <<history, prDetails, diff, parsedFiles, posted>>
    /\ UNCHANGED <<fi, hi, collected, parseVars>>
    /\ UNCHANGED <<cancelRequested, eventVars>>

\* The inner loop has ended: the outer loop takes the next file.
AnalyzeNextFile ==
    /\ pc = "loop"
    /\ FilesLeft(fi)
    /\ ~HunksLeft(parsedFiles[fi], hi)
    /\ fi' = fi + 1
    /\ hi' = 1
    /\ UNCHANGED <<pc, collected, calls, mainVars, parseVars>>
    /\ UNCHANGED <<cancelRequested, eventVars>>

\* The outer loop has ended: return comments, nil.
AnalyzeReturn ==
    /\ pc = "loop"
    /\ ~FilesLeft(fi)
    /\ comments' = collected
    /\ history' = Append(history, "analyze")
    /\ pc' = "post"
    /\ UNCHANGED <<err, out, prDetails, diff, parsedFiles, posted>>
    /\ UNCHANGED <<parseVars, analyzeVars>>
    /\ UNCHANGED <<cancelRequested, eventVars>>

----------------------------------------------------------------------------
\* main and its other collaborators

Tokens == {"", "token"}

\* The two inputs are read and checked.
CheckInputs ==
    /\ pc = "start"
    /\ \E githubToken \in Tokens, geminiApiKey \in Tokens :
         IF githubToken = "" \/ geminiApiKey = ""
         THEN /\ out' = "Error: Missing required inputs"
              /\ pc' = "done"
              /\ UNCHANGED history
         ELSE /\ history' = Append(history, "inputs")
              /\ pc' = "getPRDetails"
              /\ UNCHANGED out
    /\ UNCHANGED <<err, prDetails, diff, parsedFiles, comments, posted>>
    /\ UNCHANGED <<parseVars, analyzeVars>>
    /\ UNCHANGED <<cancelRequested, eventVars>>

\* getPRDetails: the event file is read and decoded, or either fails.
getPRDetails ==
    /\ pc = "getPRDetails"
    /\ \/ /\ \E d \in PRDetailsSet : prDetails' = d
          /\ history' = Append(history, "getPRDetails")
          /\ pc' = "getDiff"
          /\ UNCHANGED <<err, out>>
       \/ /\ err' = "getPRDetails"
          /\ out' = "Error fetching PR details"
          /\ pc' = "done"
          /\ UNCHANGED <<prDetails, history>>
    /\ UNCHANGED <<diff, parsedFiles, comments, posted>>
    /\ UNCHANGED <<parseVars, analyzeVars>>
    /\ UNCHANGED <<cancelRequested, eventVars>>

\* Mutant of getDiff: main prints the error of getDiff and goes on with the
\* empty diff.
getDiff_IgnoreError ==
    /\ pc = "getDiff"
    /\ \/ /\ \E d \in DiffTexts : diff' = d
          /\ history' = Append(history, "getDiff")
          /\ UNCHANGED <<err, out>>
       \/ /\ err' = "getDiff"
          /\ out' = "Error fetching diff"
          /\ diff' = ""
          /\ UNCHANGED history
    /\ pc' = "parseDiff"
    /\ UNCHANGED <<prDetails, parsedFiles, comments, posted>>
    /\ UNCHANGED <<parseVars, analyzeVars>>
    /\ UNCHANGED <<cancelRequested, eventVars>>

\* getDiff: the response body, or the request or the read fails.
getDiff ==
    /\ pc = "getDiff"
    /\ \/ /\ \E d \in DiffTexts : diff' = d
          /\ history' = Append(history, "getDiff")
          /\ pc' = "parseDiff"
          /\ UNCHANGED <<err, out>>
       \/ /\ err' = "getDiff"
          /\ out' = "Error fetching diff"
          /\ pc' = "done"
          /\ UNCHANGED <<diff, history>>
    /\ UNCHANGED <<prDetails, parsedFiles, comments, posted>>
    /\ UNCHANGED <<parseVars, analyzeVars>>
    /\ UNCHANGED <<cancelRequested, eventVars>>

\* postReviewComments: the review is sent; the answer is 201 or not.
postReviewComments ==
    /\ pc = "post"
    /\ posted' = Append(posted, comments)
    /\ \/ /\ history' = Append(history, "post")
          /\ out' = "Review comments posted successfully."
          /\ UNCHANGED err
       \/ /\ err' = "failed to post comments"
          /\ out' = "Error posting comments"
          /\ UNCHANGED history
    /\ pc' = "done"
    /\ UNCHANGED <<prDetails, diff, parsedFiles, comments>>
    /\ UNCHANGED <<parseVars, analyzeVars>>
    /\ UNCHANGED <<cancelRequested, eventVars>>

\* The caller asks for the assembly to be cancelled while the loops run. The
\* request reaches nothing in analyzeCodeUsingGemini: its context is
\* context.Background(), which is never cancelled, it takes no signal as a
\* parameter, and the loops test nothing between two iterations.
RequestCancel ==
    /\ pc = "loop"
    /\ ~cancelRequested
    /\ cancelRequested' = TRUE
    /\ UNCHANGED <<pc, mainVars, parseVars, analyzeVars, eventVars>>

----------------------------------------------------------------------------
Init ==
    /\ pc = "start"
    /\ err = ""
    /\ out = ""
    /\ history = <<>>
    /\ prDetails = [Title |-> "", Description |-> ""]
    /\ diff = ""
    /\ lines = <<>>
    /\ idx = 1
    /\ files = <<>>
    /\ currentFile = <<>>
    /\ currentHunk = <<>>
    /\ parsedFiles = <<>>
    /\ fi = 1
    /\ hi = 1
    /\ collected = <<>>
    /\ calls = <<>>
    /\ comments = <<>>
    /\ posted = <<>>
    /\ cancelRequested = FALSE
    /\ gpc = "idle"
    /\ eventPath = ""
    /\ eventFile = "missing"
    /\ payload = <<>>
    /\ eventData = <<>>
    /\ pullNumber = 0
    /\ repoFullName = ""
    /\ retDetails = <<>>
    /\ retErr = ""

Next ==
    \/ CheckInputs
    \/ getPRDetails
    \/ getDiff
    \/ ParseDiffBegin
    \/ ParseDiffHeader
    \/ ParsePreImage
    \/ ParsePostImage
    \/ ParseHunkStart
    \/ ParseOther
    \/ ParseDiffReturn
    \/ AnalyzeBegin
    \/ AnalyzeClientError
    \/ AnalyzeHunk
    \/ AnalyzeHunkError
    \/ AnalyzeNextFile
    \/ AnalyzeReturn
    \/ postReviewComments
    \/ RequestCancel

Spec == Init /\ [][Next]_vars

----------------------------------------------------------------------------
\* GetPRDetails (src/unnamed/part_000)

\* Decoded JSON values: eventData[key] of a key the map lacks is nil (absent).
JAbsent == [kind |-> "absent"]
JNull == [kind |-> "null"]
JString(str) == [kind |-> "string", s |-> str]
JNumber(t) == [kind |-> "number", tenths |-> t]
JObject(f) == [kind |-> "object", fields |-> f]

\* The issue objects, top-level numbers, repository objects and pull_request
\* objects an event file may hold.
IssueValues ==
    {JAbsent, JString("x")}
    \cup {JObject(f) :
            f \in [pull_request : {JAbsent, JNull, JObject(<<>>)},
                   number : {JAbsent, JNumber(70), JNumber(75), JString("7")}]}

TopNumbers == {JAbsent, JNumber(30), JString("3")}

Repositories ==
    {JAbsent, JString("o/r")}
    \cup {JObject([full_name |-> v]) :
            v \in {JAbsent, JNumber(10), JString(""), JString("o/r"), JString("o"),
                   JString("o/r/x"), JString("o/")}}

PullRequests ==
    {JAbsent,
     JObject([title |-> JString("T"), body |-> JAbsent]),
     JObject([title |-> JNull, body |-> JString("B")])}

Payloads ==
    [issue : IssueValues, number : TopNumbers, repository : Repositories,
     pull_request : PullRequests]

\* m[key], nil when the map has no such key
Get(m, key) == IF key \in DOMAIN m THEN m[key] ELSE JAbsent

\* the type assertions v.(map[string]interface{}), v.(float64), v.(string)
IsObject(v) == v.kind = "object"
IsNumber(v) == v.kind = "number"
IsString(v) == v.kind = "string"

\* int(number): the fraction is dropped, towards zero
ToInt(v) ==
    IF v.tenths >= 0 THEN v.tenths \div 10 ELSE -((-v.tenths) \div 10)

getRepoFullName(data) ==
    IF IsObject(Get(data, "repository"))
          /\ IsString(Get(data.repository.fields, "full_name"))
    THEN data.repository.fields.full_name.s
    ELSE ""

\* parts := strings.Split(fullName, "/"); len(parts) != 2 is an error
splitRepoFullName(fullName) ==
    LET parts == Split(fullName, "/")
    IN  IF Len(parts) # 2
        THEN [owner |-> "", repo |-> "",
              err |-> "invalid repository full name: " \o fullName]
        ELSE [owner |-> parts[1], repo |-> parts[2], err |-> ""]

getPRTitleAndDescription(data) ==
    IF IsObject(Get(data, "pull_request"))
    THEN LET pullRequest == data.pull_request.fields
         IN  [title |-> IF IsString(Get(pullRequest, "title"))
                        THEN pullRequest.title.s ELSE "",
              description |-> IF IsString(Get(pullRequest, "body"))
                              THEN pullRequest.body.s ELSE ""]
    ELSE [title |-> "No Title", description |-> "No Description"]

mainAllVars == <<pc, mainVars, parseVars, analyzeVars, cancelRequested>>

\* return nil, errors.New(msg)
ReturnError(msg) ==
    /\ retDetails' = <<>>
    /\ retErr' = msg
    /\ gpc' = "done"

\* eventPath := os.Getenv("GITHUB_EVENT_PATH"), and the test for ""
GetEventPath ==
    /\ gpc = "getenv"
    /\ IF eventPath = ""
       THEN ReturnError("GITHUB_EVENT_PATH environment variable is not set")
       ELSE gpc' = "open" /\ UNCHANGED <<retDetails, retErr>>
    /\ UNCHANGED <<eventPath, eventFile, payload, eventData, pullNumber, repoFullName>>
    /\ UNCHANGED mainAllVars

\* file, err := os.Open(eventPath)
OpenEventFile ==
    /\ gpc = "open"
    /\ IF eventFile = "missing"
       THEN ReturnError("failed to open event file")
       ELSE gpc' = "decode" /\ UNCHANGED <<retDetails, retErr>>
    /\ UNCHANGED <<eventPath, eventFile, payload, eventData, pullNumber, repoFullName>>
    /\ UNCHANGED mainAllVars

\* json.NewDecoder(file).Decode(&eventData)
DecodeEvent ==
    /\ gpc = "decode"
    /\ IF eventFile = "garbage"
       THEN ReturnError("failed to decode JSON from event file") /\ UNCHANGED eventData
       ELSE /\ eventData' = payload
            /\ gpc' = "shape"
            /\ UNCHANGED <<retDetails, retErr>>
    /\ UNCHANGED <<eventPath, eventFile, payload, pullNumber, repoFullName>>
    /\ UNCHANGED mainAllVars

\* Mutant of IssueEvent: an issue without pull_request data falls back to the
\* top-level number.
IssueEvent_Fallback ==
    /\ gpc = "shape"
    /\ IsObject(Get(eventData, "issue"))
    /\ LET issue == eventData.issue.fields
           number == IF IsObject(Get(issue, "pull_request"))
                     THEN Get(issue, "number") ELSE Get(eventData, "number")
       IN  IF IsNumber(number)
           THEN /\ pullNumber' = ToInt(number)
                /\ repoFullName' = getRepoFullName(eventData)
                /\ gpc' = "repo"
                /\ UNCHANGED <<retDetails, retErr>>
           ELSE /\ ReturnError("invalid pull request number in issue payload")
                /\ UNCHANGED <<pullNumber, repoFullName>>
    /\ UNCHANGED <<eventPath, eventFile, payload, eventData>>
    /\ UNCHANGED mainAllVars

\* eventData["issue"] is an object: the comment trigger
IssueEvent ==
    /\ gpc = "shape"
    /\ IsObject(Get(eventData, "issue"))
    /\ LET issue == eventData.issue.fields
       IN  IF IsObject(Get(issue, "pull_request"))
           THEN IF IsNumber(Get(issue, "number"))
                THEN /\ pullNumber' = ToInt(Get(issue, "number"))
                     /\ repoFullName' = getRepoFullName(eventData)
                     /\ gpc' = "repo"
                     /\ UNCHANGED <<retDetails, retErr>>
                ELSE /\ ReturnError("invalid pull request number in issue payload")
                     /\ UNCHANGED <<pullNumber, repoFullName>>
           ELSE /\ ReturnError("issue payload does not contain pull_request data")
                /\ UNCHANGED <<pullNumber, repoFullName>>
    /\ UNCHANGED <<eventPath, eventFile, payload, eventData>>
    /\ UNCHANGED mainAllVars

\* else: the direct pull request event
DirectEvent ==
    /\ gpc = "shape"
    /\ ~IsObject(Get(eventData, "issue"))
    /\ IF IsNumber(Get(eventData, "number"))
       THEN /\ pullNumber' = ToInt(Get(eventData, "number"))
            /\ repoFullName' = getRepoFullName(eventData)
            /\ gpc' = "repo"
            /\ UNCHANGED <<retDetails, retErr>>
       ELSE /\ ReturnError("invalid pull request number in event payload")
            /\ UNCHANGED <<pullNumber, repoFullName>>
    /\ UNCHANGED <<eventPath, eventFile, payload, eventData>>
    /\ UNCHANGED mainAllVars

\* if repoFullName == ""
CheckRepoFullName ==
    /\ gpc = "repo"
    /\ IF repoFullName = ""
       THEN ReturnError("repository full name not found in event data")
       ELSE gpc' = "split" /\ UNCHANGED <<retDetails, retErr>>
    /\ UNCHANGED <<eventPath, eventFile, payload, eventData, pullNumber, repoFullName>>
    /\ UNCHANGED mainAllVars

\* splitRepoFullName, getPRTitleAndDescription and the return of the details
SplitAndReturn ==
    /\ gpc = "split"
    /\ LET sp == splitRepoFullName(repoFullName)
           td == getPRTitleAndDescription(eventData)
       IN  IF sp.err # ""
           THEN ReturnError(sp.err)
           ELSE /\ retDetails' = <<[Owner |-> sp.owner, Repo |-> sp.repo,
                                    PullNumber |-> pullNumber, Title |-> td.title,
                                    Description |-> td.description]>>
                /\ retErr' = ""
                /\ gpc' = "done"
    /\ UNCHANGED <<eventPath, eventFile, payload, eventData, pullNumber, repoFullName>>
    /\ UNCHANGED mainAllVars

\* GetPRDetails is called in an environment: the variable set or not, the
\* file missing, not JSON, or holding one of the payloads.
GetPRDetailsInit ==
    /\ pc = "start"
    /\ err = ""
    /\ out = ""
    /\ history = <<>>
    /\ prDetails = [Title |-> "", Description |-> ""]
    /\ diff = ""
    /\ lines = <<>>
    /\ idx = 1
    /\ files = <<>>
    /\ currentFile = <<>>
    /\ currentHunk = <<>>
    /\ parsedFiles = <<>>
    /\ fi = 1
    /\ hi = 1
    /\ collected = <<>>
    /\ calls = <<>>
    /\ comments = <<>>
    /\ posted = <<>>
    /\ cancelRequested = FALSE
    /\ gpc = "getenv"
    /\ eventPath \in {"", "/github/workflow/event.json"}
    /\ eventFile \in {"missing", "garbage", "json"}
    /\ payload \in Payloads
    /\ eventData = <<>>
    /\ pullNumber = 0
    /\ repoFullName = ""
    /\ retDetails = <<>>
    /\ retErr = ""

GetPRDetailsNext ==
    \/ GetEventPath
    \/ OpenEventFile
    \/ DecodeEvent
    \/ IssueEvent
    \/ DirectEvent
    \/ CheckRepoFullName
    \/ SplitAndReturn

GetPRDetailsSpec == GetPRDetailsInit /\ [][GetPRDetailsNext]_vars

----------------------------------------------------------------------------
\* Vocabulary of the properties

\* parseDiff has returned to main.
ParseReturned == \E k \in 1..Len(history) : history[k] = "parseDiff"

\* analyzeCodeUsingGemini has returned to main without an error.
AnalyzeSucceeded == \E k \in 1..Len(history) : history[k] = "analyze"

\* The file block line k lies in: the number of diff headers among lines[1..k].
BlockOf(k) == Cardinality({j \in 1..k : IsDiffHeader(lines[j])})

\* The index of the diff header line that opens block b.
HeaderAt(b) == CHOOSE k \in 1..Len(lines) : IsDiffHeader(lines[k]) /\ BlockOf(k) = b

\* a is the same (file, hunk) pair as b or an earlier one.
PairLE(a, b) == a[1] < b[1] \/ (a[1] = b[1] /\ a[2] <= b[2])
PairLT(a, b) == a[1] < b[1] \/ (a[1] = b[1] /\ a[2] < b[2])

\* No comment of a later (file, hunk) pair precedes one of an earlier pair.
InEncounterOrder(cs) ==
    \A i, j \in 1..Len(cs) : i < j => PairLE(cs[i].src, cs[j].src)

\* The steps of main before postReviewComments.
StepsBeforePost == <<"inputs", "getPRDetails", "getDiff", "parseDiff", "analyze">>

\* The (file, hunk) pairs of the input of analyzeCodeUsingGemini.
HunkPairs == {p \in (1..Len(parsedFiles)) \X (1..MaxLines + 1) :
                 p[2] <= Len(parsedFiles[p[1]].Hunks)}

\* The comments one answered call stands for: one per candidate with Content.
CommentsFor(c) ==
    LET kept == SelectSeq(c.resp, LAMBDA cand : cand.Content # <<>>)
    IN  [k \in 1..Len(kept) |->
            [Path |-> parsedFiles[c.fi].Path, Position |-> 0,
             Body |-> FullText(kept[k].Content[1]), src |-> <<c.fi, c.hi>>]]

RECURSIVE CommentsOfCalls(_)
CommentsOfCalls(cs) ==
    IF cs = <<>> THEN <<>> ELSE CommentsFor(Head(cs)) \o CommentsOfCalls(Tail(cs))

----------------------------------------------------------------------------
\* C1: when parseDiff reaches the end of the input with a hunk still open,
\* that hunk is in the hunk sequence of a returned file, and the open file is
\* in the returned sequence. The code appends the open file but never the
\* open hunk.
C1_EndOfInputFlush ==
    ParseReturned =>
        /\ currentFile # <<>> => parsedFiles # <<>>
        /\ currentHunk # <<>> =>
              \E f \in 1..Len(parsedFiles) :
                  \E j \in 1..Len(parsedFiles[f].Hunks) :
                      parsedFiles[f].Hunks[j] = currentHunk[1]

\* C2: the example diff parses to exactly one file, x.go, holding exactly one
\* hunk with header '@@ -1,2 +1,2 @@' and lines ['-old', '+new'].
C2_ExampleParse ==
    (ParseReturned /\ diff = ExampleDiff) =>
        /\ Len(parsedFiles) = 1
        /\ parsedFiles[1].Path = "x.go"
        /\ Len(parsedFiles[1].Hunks) = 1
        /\ parsedFiles[1].Hunks[1].Header = "@@ -1,2 +1,2 @@"
        /\ parsedFiles[1].Hunks[1].Lines = <<"-old", "+new">>

\* C3: the step that reads a diff header while a file is open appends that
\* file, with its open hunk (if any) appended to its hunks, to the result,
\* opens a new empty file and leaves no hunk open.
C3_HeaderFinalizesFile ==
    [][(Scanning /\ IsDiffHeader(lines[idx]) /\ currentFile # <<>> /\ idx' = idx + 1)
        => /\ files' = Append(files, AppendHunk(currentFile, currentHunk)[1])
           /\ currentFile' = <<NewFile>>
           /\ currentHunk' = <<>>]_vars

\* C4: every hunk of the f-th returned file was opened by an '@@' line inside
\* the f-th file block of the diff.
C4_HunkInOwnBlock ==
    ParseReturned =>
        \A f \in 1..Len(parsedFiles) :
            \A j \in 1..Len(parsedFiles[f].Hunks) :
                BlockOf(parsedFiles[f].Hunks[j].at) = f

\* C5, for the file blocks laid out as a diff lays them out (the diff header,
\* then the pre-image path line, the post-image path line and a hunk marker):
\* the path of the returned file is the post-image path with '+++ b/'
\* stripped, whatever hunk content lines follow.
C5_PostImagePathWins ==
    ParseReturned =>
        \A b \in 1..Len(parsedFiles) :
            LET k == HeaderAt(b)
            IN  (/\ k + 3 <= Len(lines)
                 /\ IsPreImage(lines[k + 1])
                 /\ IsPostImage(lines[k + 2])
                 /\ IsHunkStart(lines[k + 3]))
                => parsedFiles[b].Path = TrimPrefix(lines[k + 2], "+++ b/")

\* C6: the comments are in file-then-hunk encounter order, in the sequence
\* being built, in the one returned and in the one posted: a comment of a
\* later (file, hunk) pair never precedes a comment of an earlier pair.
C6_CommentOrder ==
    /\ InEncounterOrder(collected)
    /\ InEncounterOrder(comments)
    /\ \A k \in 1..Len(posted) : InEncounterOrder(posted[k])

\* The returned sequence holds two comments of one hunk, then one of a later
\* hunk.
C6_Witness ==
    /\ AnalyzeSucceeded
    /\ Len(comments) >= 3
    /\ comments[1].src = comments[2].src
    /\ comments[3].src # comments[1].src

\* C7: the collaborator is called for hunks of the input only, at most once
\* each, in file order then hunk order; and when the run ends without a
\* failed call, it has been called for every hunk of every file.
C7_OncePerHunk ==
    /\ \A k \in 1..Len(calls) : <<calls[k].fi, calls[k].hi>> \in HunkPairs
    /\ \A i, j \in 1..Len(calls) :
          i < j => PairLT(<<calls[i].fi, calls[i].hi>>, <<calls[j].fi, calls[j].hi>>)
    /\ AnalyzeSucceeded =>
          /\ \A k \in 1..Len(calls) : calls[k].ok
          /\ \A p \in HunkPairs :
                \E k \in 1..Len(calls) : <<calls[k].fi, calls[k].hi>> = p

\* A run without failure over two files that each hold a hunk.
C7_Witness ==
    /\ AnalyzeSucceeded
    /\ Len(calls) >= 2
    /\ calls[1].fi # calls[Len(calls)].fi

\* C8: the collaborator is never called for a file without hunks or with an
\* empty path, and no comment is produced for such a file.
C8_SkipsUnattributable ==
    /\ \A k \in 1..Len(calls) :
          /\ parsedFiles[calls[k].fi].Path # ""
          /\ parsedFiles[calls[k].fi].Hunks # <<>>
    /\ \A k \in 1..Len(collected) :
          /\ parsedFiles[collected[k].src[1]].Path # ""
          /\ parsedFiles[collected[k].src[1]].Hunks # <<>>

\* C9: a failed collaborator call is the last call of the run; the run has
\* ended with an error, main holds no comments (none of those accumulated
\* before either) and nothing was posted.
C9_AbortOnFailure ==
    \A k \in 1..Len(calls) :
        ~calls[k].ok =>
            /\ k = Len(calls)
            /\ pc = "done"
            /\ err # ""
            /\ comments = <<>>
            /\ posted = <<>>

\* The collaborator failed on a later hunk after comments had been
\* accumulated for an earlier one.
C9_Witness ==
    /\ Len(calls) >= 2
    /\ ~calls[Len(calls)].ok
    /\ collected # <<>>

\* C10: postReviewComments is called at most once, and only after the input
\* check, getPRDetails, getDiff, parseDiff and the analysis have succeeded in
\* that order; what it receives is the complete comment sequence: the comments
\* of every hunk of every file, none of whose calls failed.
C10_PostOnlyAfterSuccess ==
    /\ Len(posted) <= 1
    /\ posted # <<>> =>
          /\ Len(history) >= Len(StepsBeforePost)
          /\ SubSeq(history, 1, Len(StepsBeforePost)) = StepsBeforePost
          /\ \A k \in 1..Len(calls) : calls[k].ok
          /\ \A p \in HunkPairs :
                \E k \in 1..Len(calls) : <<calls[k].fi, calls[k].hi>> = p
          /\ posted[1] = CommentsOfCalls(calls)
    /\ (pc = "done" /\ ~AnalyzeSucceeded) => posted = <<>>

\* A review of at least two comments has been posted.
C10_Witness ==
    /\ posted # <<>>
    /\ Len(posted[1]) >= 2

\* getDiff has returned a diff to main.
GetDiffSucceeded == \E k \in 1..Len(history) : history[k] = "getDiff"

\* C11: parseDiff never fails. While it scans, the loop position is inside
\* the input or just past it and a step can always be taken (each line falls
\* in one case of the switch, the end of the input returns), so it terminates
\* after one step per line; and once it has been called and is no longer
\* running it has returned a sequence with a nil error: main never prints a
\* parse error and goes on to the analysis.
C11_ParseNeverFails ==
    /\ pc = "scan" =>
          /\ idx \in 1..(Len(lines) + 1)
          /\ ENABLED ParseStep
    /\ (GetDiffSucceeded /\ pc \notin {"parseDiff", "scan"}) =>
          /\ ParseReturned
          /\ out # "Error parsing diff"
    /\ pc = "analyze" => err = ""

\* parseDiff has returned the empty sequence for a text whose hunk marker
\* comes before any diff header.
C11_Witness ==
    /\ ParseReturned
    /\ err = ""
    /\ parsedFiles = <<>>
    /\ \E k \in 1..Len(lines) : IsHunkStart(lines[k])

\* No line of the diff text begins with '@@'.
NoHunkMarker == \A k \in 1..Len(lines) : ~HasPrefix(lines[k], "@@")

\* C12: for a diff text without any line that begins with '@@', every file
\* parseDiff holds or returns has an empty hunk sequence, and no hunk is open.
C12_NoMarkerNoHunks ==
    (pc \notin {"start", "getPRDetails", "getDiff", "parseDiff"} /\ NoHunkMarker) =>
        /\ currentHunk = <<>>
        /\ \A f \in 1..Len(files) : files[f].Hunks = <<>>
        /\ \A f \in 1..Len(currentFile) : currentFile[f].Hunks = <<>>
        /\ \A f \in 1..Len(parsedFiles) : parsedFiles[f].Hunks = <<>>

\* Two files have been returned for a text without '@@' that holds path lines
\* and other lines.
C12_Witness ==
    /\ ParseReturned
    /\ NoHunkMarker
    /\ Len(parsedFiles) >= 2
    /\ \E k \in 1..Len(lines) : IsPostImage(lines[k])
    /\ \E k \in 1..Len(lines) : lines[k] = AddedLine

\* C13: the rename block parses to exactly one file with path 'r2.txt' and
\* no hunks, and the analysis of that result calls the collaborator for
\* nothing and returns no comments.
C13_RenameBlock ==
    (diff = RenameDiff /\ ParseReturned) =>
        /\ Len(parsedFiles) = 1
        /\ parsedFiles[1].Path = "r2.txt"
        /\ parsedFiles[1].Hunks = <<>>
        /\ calls = <<>>
        /\ collected = <<>>
        /\ comments = <<>>
        /\ \A k \in 1..Len(posted) : posted[k] = <<>>

\* The analysis of the parsed rename block has returned without an error.
C13_Witness ==
    /\ diff = RenameDiff
    /\ AnalyzeSucceeded
    /\ pc = "post"

\* Line k lies in a file block, before the first '@@' line of that block.
BeforeFirstHunk(k) ==
    /\ BlockOf(k) >= 1
    /\ \A j \in HeaderAt(BlockOf(k))..k : ~IsHunkStart(lines[j])

\* t is a line of some hunk of some returned file.
InReturnedHunk(t) ==
    \E f \in 1..Len(parsedFiles) :
        \E j \in 1..Len(parsedFiles[f].Hunks) :
            \E n \in 1..Len(parsedFiles[f].Hunks[j].Lines) :
                parsedFiles[f].Hunks[j].Lines[n] = t

\* C14: a line that is no marker and occurs in a file block before the
\* block's first '@@' line is discarded. Stated on the line's text: if every
\* occurrence of a non-marker line in the diff lies before the first '@@' of
\* its block, no hunk of a returned file holds that line.
C14_HeaderLinesDiscarded ==
    ParseReturned =>
        \A k \in 1..Len(lines) :
            (/\ IsOther(lines[k])
             /\ \A m \in 1..Len(lines) : lines[m] = lines[k] => BeforeFirstHunk(m))
            => ~InReturnedHunk(lines[k])

\* C15: every hunk of every returned file has a non-empty header that begins
\* with '@@' and a non-empty line sequence.
C15_CompletedHunkHasLines ==
    ParseReturned =>
        \A f \in 1..Len(parsedFiles) :
            \A j \in 1..Len(parsedFiles[f].Hunks) :
                /\ parsedFiles[f].Hunks[j].Header # ""
                /\ HasPrefix(parsedFiles[f].Hunks[j].Header, "@@")
                /\ parsedFiles[f].Hunks[j].Lines # <<>>

\* The diff is one well-formed file block: the diff header, the pre-image and
\* the post-image path line, then hunks, each a '@@' line followed by at least
\* one content line that is no marker; the text ends with a newline.
WellFormedSingleBlock ==
    /\ Len(lines) >= 6
    /\ IsDiffHeader(lines[1])
    /\ IsPreImage(lines[2])
    /\ IsPostImage(lines[3])
    /\ IsHunkStart(lines[4])
    /\ lines[Len(lines)] = ""
    /\ \A k \in 4..(Len(lines) - 1) :
          /\ IsHunkStart(lines[k]) \/ IsOther(lines[k])
          /\ IsHunkStart(lines[k]) => (k + 1 < Len(lines) /\ IsOther(lines[k + 1]))

\* The text of the hunks: each header on a line of its own, then the content.
RECURSIVE HunksText(_)
HunksText(hs) ==
    IF hs = <<>> THEN ""
    ELSE Head(hs).Header \o "\n" \o Head(hs).Content \o HunksText(Tail(hs))

\* Diff text rebuilt from a parsed file: its header lines, then its hunks.
Rebuild(file) ==
    "diff --git a/" \o file.Path \o " b/" \o file.Path \o "\n"
    \o "--- a/" \o file.Path \o "\n"
    \o "+++ b/" \o file.Path \o "\n"
    \o HunksText(file.Hunks)

\* C16: for a well-formed single file block, parsing the text rebuilt from the
\* parse result yields the same number of hunks, with the same lines in each
\* hunk, as the first parse.
C16_ReparseIdempotent ==
    (ParseReturned /\ WellFormedSingleBlock) =>
        LET first == parsedFiles[1]
            again == parseDiff(Rebuild(first))
        IN  /\ Len(again) = 1
            /\ Len(again[1].Hunks) = Len(first.Hunks)
            /\ \A j \in 1..Len(first.Hunks) :
                  again[1].Hunks[j].Lines = first.Hunks[j].Lines

\* The function parseDiff and the steps of parseDiff agree.
ParseAgrees == ParseReturned => parsedFiles = parseDiff(diff)

\* Every comment of cs has the path of the file whose hunk it was made for.
StampedWithFilePath(cs) ==
    \A k \in 1..Len(cs) :
        /\ cs[k].src[1] \in 1..Len(parsedFiles)
        /\ cs[k].Path = parsedFiles[cs[k].src[1]].Path

\* C17: every comment, in the sequence being built, in the one returned and
\* in the one posted, carries the path of the file that was being processed
\* when the collaborator was called for it: the path of a file of the input,
\* whatever the collaborator answered.
C17_CommentPath ==
    /\ StampedWithFilePath(collected)
    /\ StampedWithFilePath(comments)
    /\ \A k \in 1..Len(posted) : StampedWithFilePath(posted[k])

\* Comments have been returned for a file with a path, one of them made from
\* a candidate with several parts.
C17_Witness ==
    /\ AnalyzeSucceeded
    /\ \E k \in 1..Len(comments) :
          /\ comments[k].Path # ""
          /\ comments[k].Body = "b[Function call: f]c[Execution result: r]"

\* C18: once the cancellation has been requested, between two hunk
\* iterations, no further collaborator call is made and no further comment is
\* appended.
C18_CancelStopsAssembly ==
    [][cancelRequested => (calls' = calls /\ collected' = collected)]_vars

\* Files with the given path and hunks with the given content that differ in
\* everything else.
FileVariants(path) ==
    {[Path |-> path, Hunks |-> hs] :
        hs \in {<<>>, <<NewHunk("@@ -7,1 +7,1 @@", 1)>>}}

HunkVariants(content) ==
    {[Header |-> h, Content |-> content, Lines |-> ls, at |-> 0] :
        h \in {"@@ -1,2 +1,2 @@", "@@ -7,1 +7,1 @@"}, ls \in {<<>>, <<"-gone">>}}

\* C19: the prompt of every collaborator call depends only on the file's
\* path, the title, the description and the hunk's joined content: createPrompt
\* gives that same prompt for every file with that path and every hunk with
\* that content, whatever their other fields hold, empty title and description
\* included.
C19_PromptDependsOnlyOn ==
    \A k \in 1..Len(calls) :
        calls[k].ok =>
            LET file == parsedFiles[calls[k].fi]
                hunk == file.Hunks[calls[k].hi]
            IN  \A f2 \in FileVariants(file.Path), h2 \in HunkVariants(hunk.Content) :
                    createPrompt(f2, h2, prDetails.Title, prDetails.Description)
                        = calls[k].prompt

\* Prompts have been rendered with an empty title and description, for a
\* hunk with content and for a hunk without.
C19_Witness ==
    /\ prDetails.Title = ""
    /\ prDetails.Description = ""
    /\ \E k \in 1..Len(calls) :
          calls[k].ok /\ parsedFiles[calls[k].fi].Hunks[calls[k].hi].Content # ""
    /\ \E k \in 1..Len(calls) :
          calls[k].ok /\ parsedFiles[calls[k].fi].Hunks[calls[k].hi].Content = ""

\* Every hunk the parser holds: the open one, those of the open file, those
\* of the files appended so far and those of the result.
HunksOf(fs) == UNION {{fs[i].Hunks[j] : j \in 1..Len(fs[i].Hunks)} : i \in 1..Len(fs)}

HeldHunks ==
    {currentHunk[i] : i \in 1..Len(currentHunk)}
    \cup HunksOf(currentFile) \cup HunksOf(files) \cup HunksOf(parsedFiles)

\* The lines of ls, each followed by one line separator.
RECURSIVE Join(_)
Join(ls) ==
    IF ls = <<>> THEN "" ELSE Join(SubSeq(ls, 1, Len(ls) - 1)) \o ls[Len(ls)] \o "\n"

\* The index of the line that closed the hunk opened at line at, the next
\* hunk-start marker or diff header read so far, or idx while it is open.
ClosedAt(at) ==
    LET closers == {j \in (at + 1)..(idx - 1) :
                        IsHunkStart(lines[j]) \/ IsDiffHeader(lines[j])}
    IN  IF closers = {} THEN idx
        ELSE CHOOSE j \in closers : \A k \in closers : j <= k

\* The non-marker lines read while the hunk opened at line at was open.
ReadWhileOpen(at) ==
    SelectSeq(SubSeq(lines, at + 1, ClosedAt(at) - 1), IsOther)

ContentJoinsLines == \A h \in HeldHunks : h.Content = Join(h.Lines)

\* C20: at every step of parseDiff and in its result, each hunk's content is
\* its lines in order, each followed by one line separator, and its lines are
\* exactly the non-marker lines read while that hunk was open, verbatim and in
\* input order.
C20_HunkLinesVerbatim ==
    /\ ContentJoinsLines
    /\ \A h \in HeldHunks : h.Lines = ReadWhileOpen(h.at)

\* Files without their history fields.
Plain(fs) ==
    [i \in 1..Len(fs) |->
        [Path |-> fs[i].Path,
         Hunks |-> [j \in 1..Len(fs[i].Hunks) |->
                       [Header |-> fs[i].Hunks[j].Header,
                        Content |-> fs[i].Hunks[j].Content,
                        Lines |-> fs[i].Hunks[j].Lines]]]]

\* Line k is a hunk-start marker read before the first diff header.
IsOrphanMarker(k) == IsHunkStart(lines[k]) /\ BlockOf(k) = 0

\* The files returned for the lines from the first diff header on.
ParseFromFirstHeader ==
    IF BlockOf(Len(lines)) = 0 THEN <<>>
    ELSE LET st == ScanFrom([files |-> <<>>, currentFile |-> <<>>, currentHunk |-> <<>>],
                            SubSeq(lines, HeaderAt(1), Len(lines)), 1)
         IN  AppendFile(st.files, st.currentFile)

\* C21: once an '@@' line has been read before the first diff header, nothing
\* has changed as long as no diff header is read (no file appended, no file
\* open, no hunk open), no hunk is ever opened by a line before the first
\* header, and the result is that of the lines from the first header on: the
\* marker and the lines after it up to the header are discarded.
C21_OrphanMarkerIgnored ==
    (pc # "parseDiff" /\ \E k \in 1..(idx - 1) : IsOrphanMarker(k)) =>
        /\ BlockOf(idx - 1) = 0 =>
              files = <<>> /\ currentFile = <<>> /\ currentHunk = <<>>
        /\ \A h \in HeldHunks : BlockOf(h.at) >= 1
        /\ ParseReturned => Plain(parsedFiles) = Plain(ParseFromFirstHeader)

\* parseDiff has returned for a diff that has an '@@' line and then a content
\* line before its first diff header, and a hunk with content after it.
C21_Witness ==
    /\ ParseReturned
    /\ Len(lines) >= 5
    /\ IsHunkStart(lines[1])
    /\ lines[2] = AddedLine
    /\ IsDiffHeader(lines[3])
    /\ IsHunkStart(lines[4])
    /\ lines[5] = AddedLine

\* The path lines of block b, by index.
PathLinesOf(b) ==
    {k \in 1..Len(lines) : BlockOf(k) = b /\ (IsPreImage(lines[k]) \/ IsPostImage(lines[k]))}

\* The path the last path line of block b gives, "" when it has none.
PathOfBlock(b) ==
    IF PathLinesOf(b) = {} THEN ""
    ELSE LET k == CHOOSE k \in PathLinesOf(b) : \A j \in PathLinesOf(b) : j <= k
         IN  IF IsPreImage(lines[k]) THEN TrimPrefix(lines[k], "--- a/")
             ELSE TrimPrefix(lines[k], "+++ b/")

\* C22: the files parseDiff holds, appended or open, are as many as the
\* 'diff --git' lines read so far, at every step, so that path lines and hunk
\* markers never create or remove a file; the files it returns are as many as
\* the 'diff --git' lines of the diff text, and the i-th file is that of the
\* i-th such line: its path is the one given by the path lines of that block.
C22_FilePerHeader ==
    /\ pc = "scan" => Len(files) + Len(currentFile) = BlockOf(idx - 1)
    /\ ParseReturned =>
          /\ Len(parsedFiles) = BlockOf(Len(lines))
          /\ \A i \in 1..Len(parsedFiles) : parsedFiles[i].Path = PathOfBlock(i)

\* parseDiff has returned two files or more for a diff that holds a path
\* line and a hunk marker, one of the files without a path.
C22_Witness ==
    /\ ParseReturned
    /\ Len(parsedFiles) >= 2
    /\ \E i \in 1..Len(parsedFiles) : parsedFiles[i].Path = ""
    /\ \E k \in 1..Len(lines) : IsPostImage(lines[k])
    /\ \E k \in 1..Len(lines) : IsHunkStart(lines[k])

\* GetPRDetails has returned.
GetPRDetailsReturned == gpc = "done"

\* The event file was opened and decoded: eventData is the payload.
EventDecoded == eventPath # "" /\ eventFile = "json"

\* The repository full name of the payload is missing, or does not split
\* into exactly two parts on '/'.
BadRepoFullName ==
    \/ ~IsObject(payload.repository)
    \/ ~IsString(Get(payload.repository.fields, "full_name"))
    \/ Len(Split(payload.repository.fields.full_name.s, "/")) # 2

\* C23: when GetPRDetails has returned it has returned an error or details,
\* never both and never neither. For a decoded payload with an 'issue' object,
\* details carry the number of issue.number, and an issue without
\* 'pull_request' data gives an error whatever the top-level 'number' holds;
\* for any other payload details carry the top-level 'number'. In both shapes
\* a repository full name that is missing or does not split into exactly two
\* parts on '/' gives an error.
C23_GetPRDetails ==
    GetPRDetailsReturned =>
        /\ (retErr # "") # (retDetails # <<>>)
        /\ IsObject(payload.issue) /\ retDetails # <<>> =>
              /\ IsNumber(payload.issue.fields.number)
              /\ retDetails[1].PullNumber = ToInt(payload.issue.fields.number)
        /\ IsObject(payload.issue) /\ ~IsObject(payload.issue.fields.pull_request)
              /\ EventDecoded =>
              retErr = "issue payload does not contain pull_request data"
        /\ ~IsObject(payload.issue) /\ retDetails # <<>> =>
              /\ IsNumber(payload.number)
              /\ retDetails[1].PullNumber = ToInt(payload.number)
        /\ BadRepoFullName => retErr # ""

\* GetPRDetails has returned an error for an issue without pull_request data
\* in a payload whose top-level number and repository are good.
C23_Witness ==
    /\ GetPRDetailsReturned
    /\ EventDecoded
    /\ IsObject(payload.issue)
    /\ ~IsObject(payload.issue.fields.pull_request)
    /\ IsNumber(payload.number)
    /\ ~BadRepoFullName
    /\ retErr # ""
    /\ retDetails = <<>>

====
